---- MODULE Spec2Model ----
(***************************************************************************)
(* A model of src/app.py, the Streamlit "Excel data tool": type inference  *)
(* (convert_column_types), the merge module, the match module (lookup with *)
(* per-field aggregation) and the cleaning module, together with the       *)
(* objects that outlive one script run: the lru_cache of cached_read_excel *)
(* and st.session_state (processed_data, data_pipeline).                   *)
(*                                                                         *)
(* Strings are sequences of one-character strings, so that str.strip(),    *)
(* str.replace(), astype(str), to_numeric and to_datetime are computed     *)
(* character by character.  A DataFrame is a record                        *)
(*   [cols, dtypes, index, rows]                                           *)
(* with positional columns (pandas allows duplicate column names).         *)
(***************************************************************************)
EXTENDS Integers, Sequences, FiniteSets, TLC

(***************************************************************************)
(* Characters and strings                                                  *)
(***************************************************************************)
DigitChars == <<"0", "1", "2", "3", "4", "5", "6", "7", "8", "9">>

IsDigit(c) == \E i \in 1..Len(DigitChars) : DigitChars[i] = c

DigitVal(c) == (CHOOSE i \in 1..Len(DigitChars) : DigitChars[i] = c) - 1

AllDigits(s) == Len(s) > 0 /\ \A i \in 1..Len(s) : IsDigit(s[i])

RECURSIVE LStrip(_)
LStrip(s) == IF s # <<>> /\ Head(s) = " " THEN LStrip(Tail(s)) ELSE s

RECURSIVE RStrip(_)
RStrip(s) ==
    IF s # <<>> /\ s[Len(s)] = " " THEN RStrip(SubSeq(s, 1, Len(s) - 1)) ELSE s

\* str.strip()
Strip(s) == RStrip(LStrip(s))

\* str.replace(a, b) for one-character a and b
ReplaceChar(s, a, b) == [i \in 1..Len(s) |-> IF s[i] = a THEN b ELSE s[i]]

RECURSIVE NatToStr(_)
NatToStr(n) ==
    IF n < 10 THEN <<DigitChars[n + 1]>>
    ELSE NatToStr(n \div 10) \o <<DigitChars[(n % 10) + 1]>>

RECURSIVE StrToNat(_)
StrToNat(s) ==
    IF s = <<>> THEN 0
    ELSE 10 * StrToNat(SubSeq(s, 1, Len(s) - 1)) + DigitVal(s[Len(s)])

RECURSIVE Pow10(_)
Pow10(k) == IF k = 0 THEN 1 ELSE 10 * Pow10(k - 1)

RECURSIVE Gcd(_, _)
Gcd(a, b) == IF b = 0 THEN a ELSE Gcd(b, a % b)

\* position of the first "." of s, 0 when there is none
DotPos(s) ==
    IF \E i \in 1..Len(s) : s[i] = "."
    THEN CHOOSE i \in 1..Len(s) : s[i] = "." /\ \A j \in 1..(i - 1) : s[j] # "."
    ELSE 0

\* digits of the fraction r/d (r < d), at most FloatReprDigits of them
FloatReprDigits == 16

RECURSIVE FracDigits(_, _, _)
FracDigits(r, d, k) ==
    IF r = 0 \/ k = 0 THEN <<>>
    ELSE <<DigitChars[((10 * r) \div d) + 1]>> \o FracDigits((10 * r) % d, d, k - 1)

(***************************************************************************)
(* Cells.  k is the kind of the value: "na" (NaN / NaT), "num" (the number *)
(* n/d in lowest terms), "str" (the string s), "date" (the Timestamp whose *)
(* ISO date is s).                                                         *)
(***************************************************************************)
NA == [k |-> "na", n |-> 0, d |-> 1, s |-> <<>>]

NumC(n, d) == [k |-> "num", n |-> n \div Gcd(n, d), d |-> d \div Gcd(n, d), s |-> <<>>]

IntC(n) == [k |-> "num", n |-> n, d |-> 1, s |-> <<>>]

StrC(s) == [k |-> "str", n |-> 0, d |-> 1, s |-> s]

DateC(s) == [k |-> "date", n |-> 0, d |-> 1, s |-> s]

\* pd.notna / pd.isna
NotNa(c) == c.k # "na"

(***************************************************************************)
(* DataFrames                                                              *)
(***************************************************************************)
NoTable == [cols |-> <<>>, dtypes |-> <<>>, index |-> <<>>, rows |-> <<>>, none |-> TRUE]

DataFrame(cols, dtypes, index, rows) ==
    [cols |-> cols, dtypes |-> dtypes, index |-> index, rows |-> rows, none |-> FALSE]

NRows(df) == Len(df.rows)

NCols(df) == Len(df.cols)

RangeIndex(n) == [i \in 1..n |-> i - 1]

\* df[col] for a column position: the column's cells, top to bottom
Column(df, j) == [i \in 1..NRows(df) |-> df.rows[i][j]]

\* position of the first column named name, 0 when absent
ColPos(df, name) ==
    IF \E j \in 1..NCols(df) : df.cols[j] = name
    THEN CHOOSE j \in 1..NCols(df) :
            df.cols[j] = name /\ \A i \in 1..(j - 1) : df.cols[i] # name
    ELSE 0

HasCol(df, name) == ColPos(df, name) # 0

\* df[col] = values, for an existing column position
SetColumn(df, j, values, dtype) ==
    [df EXCEPT !.dtypes[j] = dtype,
               !.rows = [i \in 1..NRows(df) |-> [df.rows[i] EXCEPT ![j] = values[i]]]]

CountNotNa(values) == Cardinality({i \in 1..Len(values) : NotNa(values[i])})

(***************************************************************************)
(* pd.to_datetime(errors='coerce') and pd.to_numeric(errors='coerce') on   *)
(* one cell of an object column                                            *)
(***************************************************************************)
\* YYYY, YYYY-MM or YYYY-MM-DD
IsDateStr(s) ==
    \/ Len(s) = 4 /\ AllDigits(s)
    \/ /\ Len(s) = 7
       /\ AllDigits(SubSeq(s, 1, 4)) /\ s[5] = "-" /\ AllDigits(SubSeq(s, 6, 7))
    \/ /\ Len(s) = 10
       /\ AllDigits(SubSeq(s, 1, 4)) /\ s[5] = "-" /\ AllDigits(SubSeq(s, 6, 7))
       /\ s[8] = "-" /\ AllDigits(SubSeq(s, 9, 10))

IsoDate(s) ==
    IF Len(s) = 4 THEN s \o <<"-", "0", "1", "-", "0", "1">>
    ELSE IF Len(s) = 7 THEN s \o <<"-", "0", "1">>
    ELSE s

ToDatetimeCell(c) ==
    IF c.k = "date" THEN c
    ELSE IF c.k = "str" /\ IsDateStr(Strip(c.s)) THEN DateC(IsoDate(Strip(c.s)))
    ELSE NA

IsIntStr(s) == AllDigits(s)

IsFloatStr(s) ==
    /\ DotPos(s) > 1
    /\ DotPos(s) < Len(s)
    /\ AllDigits(SubSeq(s, 1, DotPos(s) - 1))
    /\ AllDigits(SubSeq(s, DotPos(s) + 1, Len(s)))

ParseFloat(s) ==
    LET p == DotPos(s)
        frac == SubSeq(s, p + 1, Len(s))
        den == Pow10(Len(frac))
    IN  NumC(StrToNat(SubSeq(s, 1, p - 1)) * den + StrToNat(frac), den)

ToNumericCell(c) ==
    IF c.k = "num" THEN c
    ELSE IF c.k = "str" /\ IsIntStr(Strip(c.s)) THEN IntC(StrToNat(Strip(c.s)))
    ELSE IF c.k = "str" /\ IsFloatStr(Strip(c.s)) THEN ParseFloat(Strip(c.s))
    ELSE NA

\* the dtype pandas gives a column of numbers: int64 when every value is an
\* integer and none is missing, float64 otherwise
NumericDtype(values) ==
    IF \A i \in 1..Len(values) : values[i].k = "num" /\ values[i].d = 1
    THEN "int64" ELSE "float64"

(***************************************************************************)
(* convert_column_types                                                    *)
(***************************************************************************)
\* the share of the rows that must parse as numbers is more than 1/HalfDen
HalfDen == 2

TryDate(df, j) ==
    LET date_col == [i \in 1..NRows(df) |-> ToDatetimeCell(df.rows[i][j])]
    IN  IF df.dtypes[j] = "object" /\ CountNotNa(date_col) > 0
        THEN SetColumn(df, j, date_col, "datetime64")
        ELSE df

\* the threshold as "at least half" instead of "more than half"
NumericEnoughOrEqual(numeric_col, df) == HalfDen * CountNotNa(numeric_col) >= NRows(df)

NumericEnough(numeric_col, df) == HalfDen * CountNotNa(numeric_col) > NRows(df)

TryNumeric(df, j) ==
    LET numeric_col == [i \in 1..NRows(df) |-> ToNumericCell(df.rows[i][j])]
    IN  IF df.dtypes[j] = "object" /\ NumericEnough(numeric_col, df)
        THEN SetColumn(df, j, numeric_col, NumericDtype(numeric_col))
        ELSE df

RECURSIVE ConvertFrom(_, _)
ConvertFrom(df, j) ==
    IF j > NCols(df) THEN df ELSE ConvertFrom(TryNumeric(TryDate(df, j), j), j + 1)

\* a loop that returns after the first column it converts
ConvertOneColumn(df) ==
    LET converted == {j \in 1..NCols(df) : TryNumeric(TryDate(df, j), j) # df}
    IN  IF converted = {} THEN df
        ELSE TryNumeric(TryDate(df, CHOOSE j \in converted : \A h \in converted : j <= h),
                        CHOOSE j \in converted : \A h \in converted : j <= h)

convert_column_types(df) == ConvertFrom(df, 1)

(***************************************************************************)
(* astype(str).str.strip(): the key normalisation of the merge and match   *)
(* modules                                                                 *)
(***************************************************************************)
\* str() of a float: the integer part, ".", the decimals ("1.0", "2.5")
FloatRepr(c) ==
    NatToStr(c.n \div c.d) \o <<".">> \o
    (IF c.n % c.d = 0 THEN <<"0">> ELSE FracDigits(c.n % c.d, c.d, FloatReprDigits))

\* str() of one value of a column of the given dtype
AsStr(c, dtype) ==
    IF c.k = "str" THEN c.s
    ELSE IF c.k = "date" THEN c.s
    ELSE IF c.k = "num" THEN (IF dtype = "int64" THEN NatToStr(c.n) ELSE FloatRepr(c))
    ELSE IF dtype = "datetime64" THEN <<"N", "a", "T">>
    ELSE <<"n", "a", "n">>

\* df[col] = df[col].astype(str).str.strip()
NormalizeKey(df, j) ==
    SetColumn(df, j, [i \in 1..NRows(df) |-> StrC(Strip(AsStr(df.rows[i][j], df.dtypes[j])))],
              "object")

(***************************************************************************)
(* Ordering of values (sorting of join keys, groupby keys, sort_values)    *)
(***************************************************************************)
Alphabet ==
    <<" ", "-", ".", "0", "1", "2", "3", "4", "5", "6", "7", "8", "9",
      ":", "N", "T", "_", "a", "b", "c", "d", "e", "h", "i", "k", "l", "m", "n", "o", "p",
      "q", "t", "u", "v", "x", "y">>

Ord(c) == CHOOSE i \in 1..Len(Alphabet) : Alphabet[i] = c

RECURSIVE StrLess(_, _)
StrLess(a, b) ==
    IF b = <<>> THEN FALSE
    ELSE IF a = <<>> THEN TRUE
    ELSE IF Head(a) # Head(b) THEN Ord(Head(a)) < Ord(Head(b))
    ELSE StrLess(Tail(a), Tail(b))

\* a < b for two non-missing values of one column
CellLess(a, b) ==
    IF a.k = "num" /\ b.k = "num" THEN a.n * b.d < b.n * a.d
    ELSE StrLess(a.s, b.s)

\* the sequence q sorted by Less, equal elements kept in their order (stable)
StableSort(q, Less(_, _)) ==
    LET RECURSIVE Insert(_, _)
        Insert(r, x) ==
            IF r = <<>> THEN <<x>>
            ELSE IF Less(x, Head(r)) THEN <<x>> \o r
            ELSE <<Head(r)>> \o Insert(Tail(r), x)
        RECURSIVE Sort(_)
        Sort(r) == IF r = <<>> THEN <<>> ELSE Insert(Sort(SubSeq(r, 1, Len(r) - 1)), r[Len(r)])
    IN  Sort(q)

\* the distinct elements of q in order of first appearance
RECURSIVE Unique(_)
Unique(q) ==
    IF q = <<>> THEN <<>>
    ELSE LET init == Unique(SubSeq(q, 1, Len(q) - 1))
         IN  IF \E i \in 1..Len(init) : init[i] = q[Len(q)] THEN init
             ELSE Append(init, q[Len(q)])

RECURSIVE Flatten(_)
Flatten(qq) == IF qq = <<>> THEN <<>> ELSE Head(qq) \o Flatten(Tail(qq))

SelectIdx(n, P(_)) ==
    LET RECURSIVE From(_)
        From(i) == IF i > n THEN <<>> ELSE (IF P(i) THEN <<i>> ELSE <<>>) \o From(i + 1)
    IN  From(1)

(***************************************************************************)
(* pandas.merge(left, right, how, left_on, right_on, suffixes)             *)
(***************************************************************************)
\* a column that receives missing values cannot stay int64
WithNa(dtype) == IF dtype = "int64" THEN "float64" ELSE dtype

\* the rows of right whose key equals the key of row i of left, in right's order
MatchesOf(left, lk, i, right, rk) ==
    SelectIdx(NRows(right), LAMBDA j : right.rows[j][rk] = left.rows[i][lk])

\* row i of one table with its matches m in the other; swap: i is a right row
PairsOfRow(i, m, keepUnmatched, swap) ==
    IF m = <<>> THEN (IF ~keepUnmatched THEN <<>>
                      ELSE IF swap THEN << <<0, i>> >> ELSE << <<i, 0>> >>)
    ELSE [x \in 1..Len(m) |-> IF swap THEN <<m[x], i>> ELSE <<i, m[x]>>]

\* how='inner' and how='left': left's rows in order, each with its matches
LeftPairs(left, lk, right, rk, keepUnmatched) ==
    Flatten([i \in 1..NRows(left) |->
        PairsOfRow(i, MatchesOf(left, lk, i, right, rk), keepUnmatched, FALSE)])

\* how='right': right's rows in order, each with its matches in left
RightPairs(left, lk, right, rk) ==
    Flatten([j \in 1..NRows(right) |->
        PairsOfRow(j, MatchesOf(right, rk, j, left, lk), TRUE, TRUE)])

\* the pairs of the left rows ls and the right rows rs that share a key
PairsOfKey(ls, rs) ==
    IF rs = <<>> THEN [x \in 1..Len(ls) |-> <<ls[x], 0>>]
    ELSE IF ls = <<>> THEN [x \in 1..Len(rs) |-> <<0, rs[x]>>]
    ELSE Flatten([x \in 1..Len(ls) |-> [y \in 1..Len(rs) |-> <<ls[x], rs[y]>>]])

PairsUnderKeys(left, lk, right, rk, keys) ==
    Flatten([x \in 1..Len(keys) |->
        PairsOfKey(SelectIdx(NRows(left), LAMBDA i : left.rows[i][lk] = keys[x]),
                   SelectIdx(NRows(right), LAMBDA j : right.rows[j][rk] = keys[x]))])

\* how='outer' taken as how='left': the keys of the right table alone are lost
OuterPairsAsLeft(left, lk, right, rk) == LeftPairs(left, lk, right, rk, TRUE)

\* how='outer': the keys of both tables, sorted; under each key its pairs
OuterPairs(left, lk, right, rk) ==
    PairsUnderKeys(left, lk, right, rk,
                   StableSort(Unique(Column(left, lk) \o Column(right, rk)), CellLess))

JoinPairs(left, lk, right, rk, how) ==
    IF how = "inner" THEN LeftPairs(left, lk, right, rk, FALSE)
    ELSE IF how = "left" THEN LeftPairs(left, lk, right, rk, TRUE)
    ELSE IF how = "right" THEN RightPairs(left, lk, right, rk)
    ELSE OuterPairs(left, lk, right, rk)

\* the result of the join, given the key positions lk and rk, the columns
\* rkeep of right that the result keeps and the joined row pairs
MergeFrame(left, right, lk, rk, sameKey, suffixes, rkeep, pairs) ==
    LET Overlaps(name) ==
            /\ \E i \in 1..NCols(left) : left.cols[i] = name
            /\ \E x \in 1..Len(rkeep) : right.cols[rkeep[x]] = name
            /\ ~(sameKey /\ name = left.cols[lk])
        LName(i) ==
            IF Overlaps(left.cols[i]) THEN left.cols[i] \o suffixes[1] ELSE left.cols[i]
        RName(j) ==
            IF Overlaps(right.cols[j]) THEN right.cols[j] \o suffixes[2] ELSE right.cols[j]
        leftNa == \E x \in 1..Len(pairs) : pairs[x][1] = 0
        rightNa == \E x \in 1..Len(pairs) : pairs[x][2] = 0
        LCell(pr, i) ==
            IF pr[1] # 0 THEN left.rows[pr[1]][i]
            ELSE IF sameKey /\ i = lk THEN right.rows[pr[2]][rk]
            ELSE NA
        RCell(pr, j) == IF pr[2] # 0 THEN right.rows[pr[2]][j] ELSE NA
        LDtype(i) ==
            IF sameKey /\ i = lk
            THEN (IF left.dtypes[lk] = right.dtypes[rk] THEN left.dtypes[lk] ELSE "object")
            ELSE IF leftNa THEN WithNa(left.dtypes[i]) ELSE left.dtypes[i]
        RDtype(j) == IF rightNa THEN WithNa(right.dtypes[j]) ELSE right.dtypes[j]
    IN  DataFrame(
            [i \in 1..NCols(left) |-> LName(i)] \o [x \in 1..Len(rkeep) |-> RName(rkeep[x])],
            [i \in 1..NCols(left) |-> LDtype(i)] \o [x \in 1..Len(rkeep) |-> RDtype(rkeep[x])],
            RangeIndex(Len(pairs)),
            [p \in 1..Len(pairs) |->
                [i \in 1..NCols(left) |-> LCell(pairs[p], i)] \o
                [x \in 1..Len(rkeep) |-> RCell(pairs[p], rkeep[x])]])

\* the join on the key columns at positions lk and rk; a key column named
\* alike in both tables appears once in the result
MergeAt(left, right, how, lk, rk, sameKey, suffixes) ==
    MergeFrame(left, right, lk, rk, sameKey, suffixes,
               SelectIdx(NCols(right), LAMBDA j : ~(sameKey /\ j = rk)),
               JoinPairs(left, lk, right, rk, how))

PdMerge(left, right, how, left_on, right_on, suffixes) ==
    MergeAt(left, right, how, ColPos(left, left_on), ColPos(right, right_on),
            left_on = right_on, suffixes)

(***************************************************************************)
(* The merge module: the three ways of merging df1 and df2                 *)
(***************************************************************************)
\* df.reindex(columns=all_columns): the named columns in that order, a column
\* the table lacks filled with NaN
Reindex(df, all_columns) ==
    DataFrame(all_columns,
              [c \in 1..Len(all_columns) |->
                  IF HasCol(df, all_columns[c]) THEN df.dtypes[ColPos(df, all_columns[c])]
                  ELSE "float64"],
              df.index,
              [i \in 1..NRows(df) |->
                  [c \in 1..Len(all_columns) |->
                      IF HasCol(df, all_columns[c]) THEN df.rows[i][ColPos(df, all_columns[c])]
                      ELSE NA]])

\* the dtype of a column stacked from two columns
StackDtype(a, b) ==
    IF a = b THEN a
    ELSE IF {a, b} = {"int64", "float64"} THEN "float64"
    ELSE "object"

\* pd.concat([a, b], ignore_index=True) of two tables with the same columns
ConcatRows(a, b) ==
    DataFrame(a.cols,
              [c \in 1..NCols(a) |-> StackDtype(a.dtypes[c], b.dtypes[c])],
              RangeIndex(NRows(a) + NRows(b)),
              a.rows \o b.rows)

\* set(df1.columns) | set(df2.columns)
UnionColumns(a, b) == {a.cols[i] : i \in 1..NCols(a)} \cup {b.cols[i] : i \in 1..NCols(b)}

\* list(set(...)): the elements of a set in an order the hash seed decides
ListsOf(S) == {q \in [1..Cardinality(S) -> S] : \A x \in S : \E i \in DOMAIN q : q[i] = x}

VerticalMerge(a, b, all_columns) == ConcatRows(Reindex(a, all_columns), Reindex(b, all_columns))

\* pd.concat([a, b], axis=1): rows aligned on the index labels, the union of
\* the labels kept, a table without a label padded with NaN
ConcatColumns(a, b, labels) ==
    LET RowOf(df, l) ==
            IF \E i \in 1..NRows(df) : df.index[i] = l
            THEN df.rows[CHOOSE i \in 1..NRows(df) : df.index[i] = l]
            ELSE [c \in 1..NCols(df) |-> NA]
        Padded(df) == \E x \in 1..Len(labels) : \A i \in 1..NRows(df) : df.index[i] # labels[x]
        Dtypes(df) == [c \in 1..NCols(df) |-> IF Padded(df) THEN WithNa(df.dtypes[c]) ELSE df.dtypes[c]]
    IN  DataFrame(a.cols \o b.cols, Dtypes(a) \o Dtypes(b), labels,
                  [x \in 1..Len(labels) |-> RowOf(a, labels[x]) \o RowOf(b, labels[x])])

HorizontalMerge(a, b) ==
    ConcatColumns(a, b, StableSort(Unique(a.index \o b.index), LAMBDA x, y : x < y))

\* the suffixes of the key join, '_' + table + '1' and '_' + table + '2'
MergeSuffixes == << <<"_", "t", "1">>, <<"_", "t", "2">> >>

\* set(df1.columns) & set(df2.columns)
CommonCols(a, b) == {a.cols[i] : i \in 1..NCols(a)} \cap {b.cols[i] : i \in 1..NCols(b)}

\* the key join: both key columns normalised, then pd.merge
KeyMerge(a, b, merge_on, merge_how) ==
    PdMerge(NormalizeKey(a, ColPos(a, merge_on)), NormalizeKey(b, ColPos(b, merge_on)),
            merge_how, merge_on, merge_on, MergeSuffixes)

\* after the merge: pd.to_datetime(errors='ignore') on every object column;
\* the column becomes a date column when every value of it parses
DateFix(df, j) ==
    LET date_col == [i \in 1..NRows(df) |-> ToDatetimeCell(df.rows[i][j])]
    IN  IF /\ df.dtypes[j] = "object"
           /\ \A i \in 1..NRows(df) : NotNa(df.rows[i][j]) => NotNa(date_col[i])
        THEN SetColumn(df, j, date_col, "datetime64")
        ELSE df

RECURSIVE DateFixFrom(_, _)
DateFixFrom(df, j) == IF j > NCols(df) THEN df ELSE DateFixFrom(DateFix(df, j), j + 1)

FixMergedDates(df) == DateFixFrom(df, 1)

(***************************************************************************)
(* The match module: per-field aggregation of the lookup table             *)
(***************************************************************************)
\* the aggregation methods offered for a field of the given dtype
AggOptions(dtype) ==
    IF dtype \in {"int64", "float64"}
    THEN {"first", "sum", "mean", "max", "min", "count"}
    ELSE {"first", "count", "concat"}

\* df[[a, b]]: the columns at the given positions
TakeColumns(df, positions) ==
    DataFrame([x \in 1..Len(positions) |-> df.cols[positions[x]]],
              [x \in 1..Len(positions) |-> df.dtypes[positions[x]]],
              df.index,
              [i \in 1..NRows(df) |-> [x \in 1..Len(positions) |-> df.rows[i][positions[x]]]])

\* df.iloc[rows]: the rows at the given positions, index labels kept
TakeRows(df, positions) ==
    [df EXCEPT !.index = [x \in 1..Len(positions) |-> df.index[positions[x]]],
               !.rows = [x \in 1..Len(positions) |-> df.rows[positions[x]]]]

\* drop_duplicates with keep='last' instead of keep='first'
DropDuplicateKeysLast(df, k) ==
    TakeRows(df, SelectIdx(NRows(df),
                           LAMBDA i : \A h \in (i + 1)..NRows(df) : df.rows[h][k] # df.rows[i][k]))

\* drop_duplicates(subset=[key], keep='first'): the first row of every key,
\* in the original order; missing keys count as one key
DropDuplicateKeys(df, k) ==
    TakeRows(df, SelectIdx(NRows(df),
                           LAMBDA i : \A h \in 1..(i - 1) : df.rows[h][k] # df.rows[i][k]))

\* groupby(key): the keys present, sorted, missing keys left out
GroupKeys(df, k) ==
    StableSort(Unique(SelectSeq(Column(df, k), NotNa)), CellLess)

\* the non-missing values of column f in the rows whose key is key
GroupValues(df, k, f, key) ==
    SelectSeq([i \in 1..NRows(df) |-> IF df.rows[i][k] = key THEN df.rows[i][f] ELSE NA], NotNa)

AddCells(a, b) == NumC(a.n * b.d + b.n * a.d, a.d * b.d)

RECURSIVE SumCells(_)
SumCells(q) ==
    IF q = <<>> THEN IntC(0)
    ELSE AddCells(Head(q), SumCells(Tail(q)))

DivideCell(c, n) == NumC(c.n, c.d * n)

MeanCells(q) == IF q = <<>> THEN NA ELSE DivideCell(SumCells(q), Len(q))

MinCells(q) ==
    IF q = <<>> THEN NA
    ELSE q[CHOOSE i \in 1..Len(q) : \A j \in 1..Len(q) : ~CellLess(q[j], q[i])]

\* str(i) of one value, as the lambda of the comma join calls it
PyStr(c) ==
    IF c.k = "date" THEN c.s \o <<" ", "0", "0", ":", "0", "0", ":", "0", "0">>
    ELSE IF c.k = "num" THEN (IF c.d = 1 THEN NatToStr(c.n) ELSE FloatRepr(c))
    ELSE c.s

RECURSIVE JoinComma(_)
JoinComma(q) ==
    IF q = <<>> THEN <<>>
    ELSE IF Len(q) = 1 THEN PyStr(q[1])
    ELSE PyStr(q[1]) \o <<",", " ">> \o JoinComma(Tail(q))

Reduce(agg, q) ==
    IF agg = "sum" THEN SumCells(q)
    ELSE IF agg = "mean" THEN MeanCells(q)
    ELSE IF agg = "min" THEN MinCells(q)
    ELSE IF agg = "count" THEN IntC(Len(q))
    ELSE StrC(JoinComma(q))

ReducedDtype(agg, dtype, values) ==
    IF agg = "count" THEN "int64"
    ELSE IF agg = "mean" THEN "float64"
    ELSE IF agg = "concat" THEN "object"
    ELSE IF \E i \in 1..Len(values) : ~NotNa(values[i]) THEN WithNa(dtype)
    ELSE dtype

\* the table of the groups' keys and reduced values
GroupFrame(df, agg, keys, values) ==
    DataFrame(df.cols, <<df.dtypes[1], ReducedDtype(agg, df.dtypes[2], values)>>,
              RangeIndex(Len(keys)),
              [x \in 1..Len(keys) |-> <<keys[x], values[x]>>])

GroupReduce(df, agg, keys) ==
    GroupFrame(df, agg, keys,
               [x \in 1..Len(keys) |-> Reduce(agg, GroupValues(df, 1, 2, keys[x]))])

\* temp_lookup.groupby(lookup_key)[field].<agg>().reset_index()
GroupByAgg(df, agg) == GroupReduce(df, agg, GroupKeys(df, 1))

\* the method whose branch calls .resetindex(), which no Series has
MisspelledResetIndex(agg) == agg = "max"

\* the duplicate-key handling of one field: temp_lookup after the if/elif chain
\* (the caller has excluded the branch that raises)
HandleDuplicateKeys(temp_lookup, agg) ==
    IF agg = "first" THEN DropDuplicateKeys(temp_lookup, 1) ELSE GroupByAgg(temp_lookup, agg)

AggregateField(lookup_df, lookup_key, field, agg) ==
    HandleDuplicateKeys(
        TakeColumns(lookup_df, <<ColPos(lookup_df, lookup_key), ColPos(lookup_df, field)>>), agg)

(***************************************************************************)
(* The match module: the handler of the match button                       *)
(***************************************************************************)
\* the suffixes of the lookup join
MatchSuffixes == << <<>>, <<"_", "m", "a", "t", "c", "h">> >>

\* df.rename(columns={old: new})
RenameColumns(df, old, new) ==
    [df EXCEPT !.cols = [j \in 1..NCols(df) |-> IF df.cols[j] = old THEN new ELSE df.cols[j]]]

\* df.drop(columns=[name])
DropColumns(df, name) ==
    TakeColumns(df, SelectIdx(NCols(df), LAMBDA j : df.cols[j] # name))

\* df.loc[:, ~df.columns.duplicated()]: of equally named columns the first
DropDuplicatedColumns(df) ==
    TakeColumns(df, SelectIdx(NCols(df), LAMBDA j : \A i \in 1..(j - 1) : df.cols[i] # df.cols[j]))

CountNamed(df, name) == Cardinality({j \in 1..NCols(df) : df.cols[j] = name})

\* the rename after the join: every column named field gets the new name
RenameMatched(merged, fs) ==
    IF HasCol(merged, fs.field) THEN RenameColumns(merged, fs.field, fs.new_name) ELSE merged

\* the join of one pass: both keys normalised, left join, rename
JoinField(result_df, temp_lookup, main_key, lookup_key, fs) ==
    [temp_lookup |-> temp_lookup,
     result_df |-> RenameMatched(
                       PdMerge(NormalizeKey(result_df, ColPos(result_df, main_key)), temp_lookup,
                               "left", main_key, lookup_key, MatchSuffixes), fs)]

\* one pass of the loop over field_settings, for the setting fs
MatchOneField(result_df, lookup_df, main_key, lookup_key, fs) ==
    JoinField(result_df,
              NormalizeKey(AggregateField(lookup_df, lookup_key, fs.field, fs.agg), 1),
              main_key, lookup_key, fs)

\* an exception inside one pass: the misspelled method, or result_df[main_key]
\* naming two columns (a DataFrame has no .str)
FieldRaises(result_df, main_key, fs) ==
    MisspelledResetIndex(fs.agg) \/ CountNamed(result_df, main_key) > 1

\* the loop's state after one more pass, whose outcome is one
AfterField(acc, one) ==
    [acc EXCEPT !.result_df = one.result_df,
                !.temp_lookups = Append(acc.temp_lookups, one.temp_lookup)]

\* the loop over field_settings: the state after the settings q, from acc
RECURSIVE MatchLoop(_, _, _, _, _)
MatchLoop(acc, lookup_df, main_key, lookup_key, q) ==
    IF q = <<>> \/ acc.error # "" THEN acc
    ELSE IF FieldRaises(acc.result_df, main_key, Head(q))
    THEN [acc EXCEPT !.error = "AttributeError"]
    ELSE MatchLoop(AfterField(acc, MatchOneField(acc.result_df, lookup_df, main_key, lookup_key, Head(q))),
                   lookup_df, main_key, lookup_key, Tail(q))

\* the clean-up after the loop: the lookup key column and duplicated columns
MatchCleanup(result_df, main_key, lookup_key) ==
    DropDuplicatedColumns(
        IF HasCol(result_df, lookup_key) /\ lookup_key # main_key
        THEN DropColumns(result_df, lookup_key)
        ELSE result_df)

\* result_df[matched_cols].notna().any(axis=1).sum()
MatchedCount(result_df, matched_cols) ==
    Cardinality({i \in 1..NRows(result_df) :
        \E j \in 1..NCols(result_df) :
            /\ \E x \in 1..Len(matched_cols) : matched_cols[x] = result_df.cols[j]
            /\ NotNa(result_df.rows[i][j])})

\* (matched_count / len(result_df)) * 100; a numpy integer divided by 0 is nan
MatchRate(matched_count, total) ==
    IF total = 0 THEN NA ELSE NumC(100 * matched_count, total)

\* the statistics of the cleaned result; result_df[matched_cols] raises
\* KeyError when a new name is no column of the result
MatchStatistics(looped, cleaned, matched_cols, matched_count) ==
    IF \E x \in 1..Len(matched_cols) : ~HasCol(cleaned, matched_cols[x])
    THEN [looped EXCEPT !.result_df = cleaned, !.error = "KeyError"]
    ELSE [looped EXCEPT !.result_df = cleaned,
                        !.matched_count = matched_count,
                        !.match_rate = MatchRate(matched_count, NRows(cleaned))]

MatchedCols(field_settings) == [x \in 1..Len(field_settings) |-> field_settings[x].new_name]

\* what follows the loop: clean-up and statistics, unless the loop raised
AfterLoop(looped, cleaned, matched_cols) ==
    IF looped.error # "" THEN [looped EXCEPT !.result_df = NoTable]
    ELSE MatchStatistics(looped, cleaned, matched_cols, MatchedCount(cleaned, matched_cols))

CleanLooped(looped, main_key, lookup_key, field_settings) ==
    AfterLoop(looped, MatchCleanup(looped.result_df, main_key, lookup_key),
              MatchedCols(field_settings))

\* the handler of the match button, from result_df = main_df.copy() to the
\* statistics: what it leaves is error, result_df, the temp_lookup of every
\* field as it was joined, matched_count and match_rate
MatchHandler(main_df, lookup_df, main_key, lookup_key, field_settings) ==
    CleanLooped(
        MatchLoop([error |-> "", result_df |-> main_df, temp_lookups |-> <<>>,
                   matched_count |-> 0, match_rate |-> NA],
                  lookup_df, main_key, lookup_key, field_settings),
        main_key, lookup_key, field_settings)

(***************************************************************************)
(* The cleaning module: the transforms behind its buttons                  *)
(***************************************************************************)
\* df.drop_duplicates(): of equal rows the first, index labels kept
DropDuplicates(df) ==
    TakeRows(df, SelectIdx(NRows(df), LAMBDA i : \A h \in 1..(i - 1) : df.rows[h] # df.rows[i]))

\* df.dropna(): the rows without a missing value
DropNa(df) ==
    TakeRows(df, SelectIdx(NRows(df), LAMBDA i : \A c \in 1..NCols(df) : NotNa(df.rows[i][c])))

\* df.reset_index(drop=True)
ResetIndex(df) == [df EXCEPT !.index = RangeIndex(NRows(df))]

\* df.columns = [str(col).strip().replace(' ', '_') for col in df.columns]
NormalizeNames(df) ==
    [df EXCEPT !.cols = [j \in 1..NCols(df) |-> ReplaceChar(Strip(df.cols[j]), " ", "_")]]

\* the order of sort_values on column j: missing values last either way
RowBefore(df, j, ascending, a, b) ==
    IF ~NotNa(df.rows[a][j]) THEN FALSE
    ELSE IF ~NotNa(df.rows[b][j]) THEN TRUE
    ELSE IF ascending THEN CellLess(df.rows[a][j], df.rows[b][j])
    ELSE CellLess(df.rows[b][j], df.rows[a][j])

\* df.sort_values(by=sort_col, ascending=sort_asc)
SortValues(df, j, ascending) ==
    TakeRows(df, StableSort([i \in 1..NRows(df) |-> i],
                            LAMBDA a, b : RowBefore(df, j, ascending, a, b)))

\* pd.to_datetime of one value of any column: a number counts from the epoch
ToDatetimeAny(c) ==
    IF c.k = "num" THEN DateC(<<"1", "9", "7", "0", "-", "0", "1", "-", "0", "1">>)
    ELSE ToDatetimeCell(c)

MapColumn(df, j, F(_)) == [i \in 1..NRows(df) |-> F(df.rows[i][j])]

\* the four conversions of the "data type" tab, each assigned to the column
ColumnAsStr(df, j) ==
    SetColumn(df, j, [i \in 1..NRows(df) |-> StrC(AsStr(df.rows[i][j], df.dtypes[j]))], "object")

ColumnToNumeric(df, j, numeric_col) ==
    SetColumn(df, j, numeric_col, NumericDtype(numeric_col))

\* errors='ignore': the column is returned as it is unless every value parses
ColumnAutoNumeric(df, j, numeric_col) ==
    IF \A i \in 1..NRows(df) : NotNa(df.rows[i][j]) => NotNa(numeric_col[i])
    THEN ColumnToNumeric(df, j, numeric_col)
    ELSE df

ConvertColumn(df, j, kind) ==
    IF kind = "auto" THEN ColumnAutoNumeric(df, j, MapColumn(df, j, ToNumericCell))
    ELSE IF kind = "str" THEN ColumnAsStr(df, j)
    ELSE IF kind = "num" THEN ColumnToNumeric(df, j, MapColumn(df, j, ToNumericCell))
    ELSE SetColumn(df, j, MapColumn(df, j, ToDatetimeAny), "datetime64")

\* the transform behind the button op
CleanOp(df, op) ==
    IF op.kind = "drop_duplicates" THEN DropDuplicates(df)
    ELSE IF op.kind = "dropna" THEN DropNa(df)
    ELSE IF op.kind = "reset_index" THEN ResetIndex(df)
    ELSE IF op.kind = "normalize_names" THEN NormalizeNames(df)
    ELSE IF op.kind = "rename" THEN RenameColumns(df, df.cols[op.col], op.name)
    ELSE IF op.kind = "drop" THEN DropColumns(df, df.cols[op.col])
    ELSE IF op.kind = "sort" THEN SortValues(df, op.col, op.asc)
    ELSE ConvertColumn(df, op.col, op.to)

\* the transforms that assign into clean_df (clean_df.columns = ...,
\* clean_df[col] = ...); the others rebind the name clean_df to a new table
InPlace(op) == op.kind \in {"normalize_names", "convert"}

(***************************************************************************)
(* State                                                                   *)
(***************************************************************************)
VARIABLES
    inferDf,        \* type inference: the DataFrame handed to convert_column_types
    inferResult,    \* type inference: what convert_column_types returned
    inferAgain,     \* type inference: what it returned for its own output
    df1,            \* merge module: the first table, as loaded
    df2,            \* merge module: the second table, as loaded
    merged_df,      \* merge module: the merged table, NoTable before the merge
    merge_error,    \* merge module: class of the exception the handler caught, "" if none
    merge_method,   \* merge module: the way of merging chosen, "" before the merge
    merge_on,       \* merge module: the key column chosen for the key join
    merge_how,      \* merge module: the join mode chosen for the key join
    main_df,        \* match module: the main table, as loaded
    lookup_df,      \* match module: the lookup table, as loaded
    main_key,       \* match module: the key column chosen in the main table
    lookup_key,     \* match module: the key column chosen in the lookup table
    auto_fix,       \* match module: the "convert key types to string" checkbox
    field_settings, \* match module: per selected field, [field, agg, new_name]
    result_df,      \* match module: the result table, NoTable before the match
    temp_lookups,   \* match module: the aggregated lookup of every field, as joined
    match_error,    \* match module: class of the exception the handler caught, "" if none
    matched_count,  \* match module: the "matched rows" metric
    match_rate,     \* match module: the "match rate" metric, in percent (NA: nan)
    processed_data, \* st.session_state.processed_data
    data_pipeline,  \* st.session_state.data_pipeline: name -> table (NoTable: no entry)
    cache,          \* cached_read_excel's cache: file -> the table object it returns
    clean_alias,    \* the file whose cached object is also the "clean_result" entry
    merge_uploaded, \* merge module: both uploaders hold their file
    match_uploaded, \* match module: source "upload" and both uploaders hold their file
    clean_source,   \* cleaning module: the source radio
    selected_clean, \* cleaning module: the entry its selectbox shows, "" without entries
    clean_file,     \* cleaning module: the file in the uploader, "" if none
    clean_shown,    \* cleaning module: clean_df as last previewed (NoTable: none)
    clean_loaded,   \* the table previewed when the first of clean_history was clicked
    clean_history,  \* the cleaning buttons clicked one after the other
    interactions    \* the number of interactions with the page so far

inferVars == <<inferDf, inferResult, inferAgain>>

mergeVars == <<df1, df2, merged_df, merge_error, merge_method, merge_on, merge_how>>

matchInputVars == <<main_key, lookup_key, auto_fix>>

matchOutputVars == <<result_df, temp_lookups, match_error, matched_count, match_rate>>

matchVars == <<main_df, lookup_df, field_settings, matchInputVars, matchOutputVars>>

sessionVars == <<processed_data, data_pipeline>>

widgetVars == <<merge_uploaded, match_uploaded, clean_source, clean_file>>

appVars ==
    <<cache, clean_alias, selected_clean, clean_shown, clean_loaded, clean_history,
      interactions, widgetVars>>

vars == <<inferVars, mergeVars, matchVars, sessionVars, appVars>>

\* the match module before any table is loaded
MatchIdle ==
    /\ main_df = NoTable /\ lookup_df = NoTable
    /\ main_key = <<>> /\ lookup_key = <<>> /\ auto_fix = TRUE
    /\ field_settings = <<>>
    /\ result_df = NoTable /\ temp_lookups = <<>> /\ match_error = ""
    /\ matched_count = 0 /\ match_rate = NA

\* the merge module before any table is loaded
MergeIdle ==
    /\ df1 = NoTable /\ df2 = NoTable /\ merged_df = NoTable /\ merge_error = ""
    /\ merge_method = "" /\ merge_on = <<>> /\ merge_how = ""

InferIdle == inferDf = NoTable /\ inferResult = NoTable /\ inferAgain = NoTable

\* the names under which the three modules save to the pipeline
PipelineNames == {"merge_result", "match_result", "clean_result"}

EmptyPipeline == [name \in PipelineNames |-> NoTable]

\* the files a user has at hand, and the uploader without a file
Files == {"f1", "f2"}

NoFile == ""

EmptyCache == [f \in Files |-> NoTable]

\* the page before any interaction: nothing cached, nothing uploaded, the
\* radio of the cleaning module on its first option
AppIdle ==
    /\ cache = EmptyCache /\ clean_alias = NoFile
    /\ merge_uploaded = FALSE /\ match_uploaded = FALSE
    /\ clean_source = "pipeline" /\ selected_clean = "" /\ clean_file = NoFile
    /\ clean_shown = NoTable /\ clean_loaded = NoTable /\ clean_history = <<>>
    /\ interactions = 0

(***************************************************************************)
(* Bounds and input values                                                 *)
(***************************************************************************)
MaxRows == 3

RECURSIVE SeqsUpTo(_, _)
SeqsUpTo(S, n) ==
    IF n = 0 THEN {<<>>}
    ELSE LET shorter == SeqsUpTo(S, n - 1)
         IN  shorter \cup {Append(q, x) : q \in {r \in shorter : Len(r) = n - 1}, x \in S}

\* what read_csv / read_excel leaves in an object column
InferCells ==
    {StrC(<<"1">>), StrC(<<"2", ".", "5">>), StrC(<<" ", "3">>), StrC(<<"x">>),
     StrC(<<"2", "0", "2", "0">>), NA}

\* an object column "c" beside a column "n" of numbers, read as int64 or,
\* from text cells, as object
InferInputs ==
    {DataFrame(<< <<"c">>, <<"n">> >>, <<"object", "int64">>, RangeIndex(Len(q)),
               [i \in 1..Len(q) |-> <<q[i], IntC(i)>>]) : q \in SeqsUpTo(InferCells, MaxRows)}
    \cup {DataFrame(<< <<"c">>, <<"n">> >>, <<"object", "object">>, RangeIndex(Len(q)),
                    [i \in 1..Len(q) |-> <<q[i], StrC(NatToStr(i))>>])
          : q \in SeqsUpTo(InferCells, MaxRows)}

(***************************************************************************)
(* Type inference on its own: convert_column_types applied to a DataFrame  *)
(***************************************************************************)
InferInit ==
    /\ inferDf \in InferInputs
    /\ inferResult = NoTable
    /\ inferAgain = NoTable
    /\ MergeIdle /\ MatchIdle
    /\ processed_data = NoTable /\ data_pipeline = EmptyPipeline
    /\ AppIdle

ConvertTypes ==
    /\ inferResult.none
    /\ inferResult' = convert_column_types(inferDf)
    /\ UNCHANGED <<inferDf, inferAgain, mergeVars, matchVars, sessionVars, appVars>>

\* the table returned is handed to convert_column_types once more, as every
\* run of the page does with the table the cache holds
ConvertTypesAgain ==
    /\ ~inferResult.none /\ inferAgain.none
    /\ inferAgain' = convert_column_types(inferResult)
    /\ UNCHANGED <<inferDf, inferResult, mergeVars, matchVars, sessionVars, appVars>>

InferNext == ConvertTypes \/ ConvertTypesAgain

SpecInfer == InferInit /\ [][InferNext]_vars

(***************************************************************************)
(* C9                                                                      *)
(***************************************************************************)
InferColumn == Column(inferDf, 1)

InferDateAdopted == \E i \in 1..Len(InferColumn) : NotNa(ToDatetimeCell(InferColumn[i]))

InferParsed == Cardinality({i \in 1..Len(InferColumn) : NotNa(ToNumericCell(InferColumn[i]))})

InferNonMissing == CountNotNa(InferColumn)

InferIsNumeric == inferResult.dtypes[1] \in {"int64", "float64"}

\* C9 as stated: a String column that is not adopted as Date becomes numeric
\* exactly when (values that parse as numbers) / (non-missing values) > 0.5,
\* missing values not counting in the denominator.
C9_RatioOfNonMissing ==
    (~inferResult.none /\ ~InferDateAdopted) =>
        (InferIsNumeric <=> (InferNonMissing > 0 /\ 2 * InferParsed > InferNonMissing))

\* C9 amended: a String column that is not adopted as Date becomes numeric
\* exactly when the values that parse as numbers are more than half of all the
\* rows of the table, missing values included in the denominator.
C9_RatioOfAllRows ==
    (~inferResult.none /\ ~InferDateAdopted) =>
        (InferIsNumeric <=> 2 * InferParsed > NRows(inferDf))

\* a column with a missing value that was converted to numbers
C9_Witness ==
    /\ ~inferResult.none
    /\ ~InferDateAdopted
    /\ \E i \in 1..Len(InferColumn) : InferColumn[i] = NA
    /\ InferIsNumeric

(***************************************************************************)
(* The merge module on its own: two loaded tables and the merge button     *)
(***************************************************************************)
MaxMergeRows == 2

KeyColumns(n) ==
    {<<"object", q>> : q \in SeqsUpTo({StrC(<<"a">>), StrC(<<" ", "a">>), StrC(<<"b">>)}, n)}
    \cup {<<"int64", q>> : q \in SeqsUpTo({IntC(1), IntC(2)}, n) \ {<<>>}}
    \cup {<<"object", q>> : q \in SeqsUpTo({StrC(<<"2", "0", "2", "0">>), NA}, n) \ {<<>>}}

\* a table as the loader leaves it: a key column and a column of numbers
LoadedTable(keyName, key, valueName, base) ==
    convert_column_types(
        DataFrame(<<keyName, valueName>>, <<key[1], "int64">>, RangeIndex(Len(key[2])),
                  [i \in 1..Len(key[2]) |-> <<key[2][i], IntC(base + i)>>]))

MergeInputs1 == {LoadedTable(<<"i", "d">>, key, <<"a">>, 10) : key \in KeyColumns(MaxMergeRows)}

MergeInputs2 ==
    {LoadedTable(<<"i", "d">>, key, <<"b">>, 20) : key \in KeyColumns(MaxMergeRows)}
    \cup {LoadedTable(<<"k">>, key, <<"b">>, 20) : key \in KeyColumns(MaxMergeRows)}

MergeInit ==
    /\ df1 \in MergeInputs1
    /\ df2 \in MergeInputs2
    /\ merged_df = NoTable /\ merge_error = ""
    /\ merge_method = "" /\ merge_on = <<>> /\ merge_how = ""
    /\ InferIdle /\ MatchIdle
    /\ processed_data = NoTable /\ data_pipeline = EmptyPipeline
    /\ AppIdle

HasDuplicateColumns(df) ==
    \E i, j \in 1..NCols(df) : i # j /\ df.cols[i] = df.cols[j]

\* the handler's tail: the date pass, then the result is shown and stored.
\* merged_df[col] is a DataFrame when two columns are named col, and the
\* date pass's merged_df[col].dtype raises AttributeError.
FinishMerge(m) ==
    IF HasDuplicateColumns(m)
    THEN /\ merge_error' = "AttributeError"
         /\ UNCHANGED <<merged_df, processed_data, data_pipeline>>
    ELSE /\ merged_df' = FixMergedDates(m)
         /\ merge_error' = ""
         /\ processed_data' = FixMergedDates(m)
         /\ data_pipeline' = [data_pipeline EXCEPT !["merge_result"] = FixMergedDates(m)]

MergeReady == ~df1.none /\ ~df2.none /\ merged_df.none /\ merge_error = ""

MergeVertically ==
    /\ MergeReady
    /\ \E all_columns \in ListsOf(UnionColumns(df1, df2)) :
           FinishMerge(VerticalMerge(df1, df2, all_columns))
    /\ merge_method' = "vertical"
    /\ UNCHANGED <<df1, df2, merge_on, merge_how, inferVars, matchVars, appVars>>

MergeHorizontally ==
    /\ MergeReady
    /\ FinishMerge(HorizontalMerge(df1, df2))
    /\ merge_method' = "horizontal"
    /\ UNCHANGED <<df1, df2, merge_on, merge_how, inferVars, matchVars, appVars>>

\* without a common column merge_on is never assigned: NameError
MergeOnKey ==
    /\ MergeReady
    /\ IF CommonCols(df1, df2) = {}
       THEN /\ merge_error' = "NameError"
            /\ UNCHANGED <<df1, df2, merged_df, merge_on, merge_how, processed_data, data_pipeline>>
       ELSE \E on \in CommonCols(df1, df2), how \in {"inner", "left", "right", "outer"} :
               /\ merge_on' = on
               /\ merge_how' = how
               /\ df1' = NormalizeKey(df1, ColPos(df1, on))
               /\ df2' = NormalizeKey(df2, ColPos(df2, on))
               /\ FinishMerge(KeyMerge(df1, df2, on, how))
    /\ merge_method' = "key"
    /\ UNCHANGED <<inferVars, matchVars, appVars>>

MergeNext == MergeVertically \/ MergeHorizontally \/ MergeOnKey

SpecMerge == MergeInit /\ [][MergeNext]_vars

(***************************************************************************)
(* The match module on its own: two loaded tables, the key columns chosen, *)
(* then the type check, the field settings and the match button            *)
(***************************************************************************)
MaxLookupRows == 2

ID == <<"i", "d">>

CODE == <<"c", "o", "d", "e">>

NAME == <<"n", "a", "m", "e">>

VAL == <<"v", "a", "l">>

TXT == <<"t", "x", "t">>

\* the main table: a key column "id" and a second column, named "name" or,
\* like a column of the lookup table, "txt"
MainKeyColumns ==
    {<<"object", <<>>>>,
     <<"object", <<StrC(<<"a">>)>>>>,
     <<"object", <<StrC(<<"b">>), StrC(<<"a">>)>>>>,
     <<"int64", <<IntC(1)>>>>,
     <<"int64", <<IntC(2), IntC(1)>>>>}

MainInputs ==
    {convert_column_types(
        DataFrame(<<ID, name>>, <<key[1], "object">>, RangeIndex(Len(key[2])),
                  [i \in 1..Len(key[2]) |-> <<key[2][i], StrC(<<IF i % 2 = 1 THEN "x" ELSE "y">>)>>]))
     : key \in MainKeyColumns, name \in {NAME, TXT}}

LookupKeyColumns(n) ==
    {<<"object", q>> : q \in SeqsUpTo({StrC(<<"a">>), StrC(<<" ", "a">>)}, n)}
    \cup {<<"int64", q>> : q \in SeqsUpTo({IntC(1), IntC(2)}, n) \ {<<>>}}

NumberColumnDtype(q) == IF q = <<>> THEN "object" ELSE NumericDtype(q)

\* the lookup table: a key column, a column of numbers "val" and a column of
\* strings "txt"
LookupTable(keyName, key, val) ==
    convert_column_types(
        DataFrame(<<keyName, VAL, TXT>>, <<key[1], NumberColumnDtype(val), "object">>,
                  RangeIndex(Len(val)),
                  [i \in 1..Len(val) |->
                      <<key[2][i], val[i], StrC(<<IF i % 2 = 1 THEN "p" ELSE "q">>)>>]))

LookupInputs ==
    UNION {{LookupTable(keyName, key, val) :
                val \in {q \in SeqsUpTo({IntC(5), NA}, MaxLookupRows) : Len(q) = Len(key[2])}}
           : keyName \in {ID, CODE}, key \in LookupKeyColumns(MaxLookupRows)}

KeyDtypesDiffer ==
    main_df.dtypes[ColPos(main_df, main_key)] # lookup_df.dtypes[ColPos(lookup_df, lookup_key)]

MatchInit ==
    /\ main_df \in MainInputs
    /\ lookup_df \in LookupInputs
    /\ main_key = main_df.cols[1]
    /\ lookup_key = lookup_df.cols[1]
    /\ auto_fix \in BOOLEAN
    /\ KeyDtypesDiffer \/ auto_fix
    /\ field_settings = <<>>
    /\ result_df = NoTable /\ temp_lookups = <<>> /\ match_error = ""
    /\ matched_count = 0 /\ match_rate = NA
    /\ InferIdle /\ MergeIdle
    /\ processed_data = NoTable /\ data_pipeline = EmptyPipeline
    /\ AppIdle

MatchRan == match_error # "" \/ ~result_df.none

\* the type check: differing key dtypes and the box ticked
MustUnify == KeyDtypesDiffer /\ auto_fix

UnifyKeyTypes ==
    /\ ~main_df.none /\ ~lookup_df.none
    /\ MustUnify
    /\ main_df' = NormalizeKey(main_df, ColPos(main_df, main_key))
    /\ lookup_df' = NormalizeKey(lookup_df, ColPos(lookup_df, lookup_key))
    /\ UNCHANGED <<field_settings, matchInputVars, matchOutputVars, inferVars, mergeVars, sessionVars, appVars>>

\* the default of the "new column name" box is a prefix and the field's name
DefaultNewName(field) == <<"m", "_">> \o field

NewNames(field) == {DefaultNewName(field), <<"o", "u", "t">>}

LastSelected ==
    IF field_settings = <<>> THEN 1
    ELSE ColPos(lookup_df, field_settings[Len(field_settings)].field)

\* one more field ticked in the multiselect, with its two boxes filled in
SelectField ==
    /\ ~main_df.none /\ ~lookup_df.none
    /\ ~MustUnify /\ ~MatchRan
    /\ \E f \in (LastSelected + 1)..NCols(lookup_df) :
        /\ lookup_df.cols[f] # lookup_key
        /\ \E agg \in AggOptions(lookup_df.dtypes[f]), new_name \in NewNames(lookup_df.cols[f]) :
              field_settings' = Append(field_settings,
                                       [field |-> lookup_df.cols[f], agg |-> agg, new_name |-> new_name])
    /\ UNCHANGED <<main_df, lookup_df, matchInputVars, matchOutputVars, inferVars, mergeVars, sessionVars, appVars>>

ExecuteMatch ==
    /\ ~main_df.none /\ ~lookup_df.none
    /\ ~MustUnify /\ ~MatchRan
    /\ field_settings # <<>>
    /\ \E done \in {MatchHandler(main_df, lookup_df, main_key, lookup_key, field_settings)} :
           /\ result_df' = done.result_df
           /\ temp_lookups' = done.temp_lookups
           /\ match_error' = done.error
           /\ matched_count' = done.matched_count
           /\ match_rate' = done.match_rate
           /\ IF done.error = ""
              THEN /\ processed_data' = done.result_df
                   /\ data_pipeline' = [data_pipeline EXCEPT !["match_result"] = done.result_df]
              ELSE UNCHANGED sessionVars
    /\ UNCHANGED <<main_df, lookup_df, field_settings, matchInputVars, inferVars, mergeVars, appVars>>

MatchNext == UnifyKeyTypes \/ SelectField \/ ExecuteMatch

SpecMatch == MatchInit /\ [][MatchNext]_vars

(***************************************************************************)
(* C1                                                                      *)
(***************************************************************************)
LookupKeyPos == ColPos(lookup_df, lookup_key)

\* the key of row i of the lookup table, stringified and trimmed
NormalizedLookupKey(i) ==
    Strip(AsStr(lookup_df.rows[i][LookupKeyPos], lookup_df.dtypes[LookupKeyPos]))

NormalizedLookupKeys == {NormalizedLookupKey(i) : i \in 1..NRows(lookup_df)}

RowsWithKey(tl, key) == {r \in 1..NRows(tl) : tl.rows[r][1] = StrC(key)}

\* C1: for every aggregation method the per-field aggregation completes and
\* yields, at the moment it is joined onto the main table, a table with
\* exactly one row per distinct normalized key of the lookup table.
C1_OneRowPerKey ==
    MatchRan =>
        /\ Len(temp_lookups) = Len(field_settings)
        /\ \A x \in 1..Len(temp_lookups) :
              /\ \A key \in NormalizedLookupKeys :
                    Cardinality(RowsWithKey(temp_lookups[x], key)) = 1
              /\ \A r \in 1..NRows(temp_lookups[x]) :
                    \E key \in NormalizedLookupKeys : temp_lookups[x].rows[r][1] = StrC(key)

(***************************************************************************)
(* C2                                                                      *)
(***************************************************************************)
MainKeyPos == ColPos(main_df, main_key)

\* the value the result carries for cell (i, c) of the main table: the key
\* stringified and trimmed, any other cell as it is
MainCellInResult(i, c) ==
    IF c = MainKeyPos
    THEN StrC(Strip(AsStr(main_df.rows[i][c], main_df.dtypes[c])))
    ELSE main_df.rows[i][c]

\* C2: the match result has exactly as many rows as the main table and its
\* i-th row carries the i-th main-table row's values.
C2_LeftJoinKeepsRows ==
    (MatchRan /\ ~result_df.none) =>
        /\ NRows(result_df) = NRows(main_df)
        /\ \A i \in 1..NRows(main_df) : \A c \in 1..NCols(main_df) :
              HasCol(result_df, main_df.cols[c]) =>
                  result_df.rows[i][ColPos(result_df, main_df.cols[c])] = MainCellInResult(i, c)

(***************************************************************************)
(* C4                                                                      *)
(***************************************************************************)
\* the rows of the result with a non-missing value in a newly joined column
MatchedRows ==
    {i \in 1..NRows(result_df) :
        \E j \in 1..NCols(result_df) :
            /\ \E x \in 1..Len(field_settings) : field_settings[x].new_name = result_df.cols[j]
            /\ NotNa(result_df.rows[i][j])}

\* C4: match_rate is a number between 0 and 1 (shown in percent: 0 to 100)
\* equal to matched_row_count / total_row_count, matched_row_count being the
\* number of result rows with a newly joined column non-missing; with 0 rows
\* the rate is 0.
C4_MatchRate ==
    (MatchRan /\ match_error = "") =>
        /\ matched_count = Cardinality(MatchedRows)
        /\ match_rate.k = "num"
        /\ match_rate.n <= 100 * match_rate.d
        /\ match_rate.n * NRows(result_df) = 100 * matched_count * match_rate.d
        /\ NRows(result_df) = 0 => match_rate = IntC(0)

(***************************************************************************)
(* C7                                                                      *)
(***************************************************************************)
DuplicateNewNames ==
    \E x, y \in 1..Len(field_settings) :
        x # y /\ field_settings[x].new_name = field_settings[y].new_name

\* C7: a match in which two field settings have the same new column name
\* fails with DuplicateFieldName and produces no result table.
C7_DuplicateNameFails ==
    (MatchRan /\ DuplicateNewNames) =>
        (match_error = "DuplicateFieldName" /\ result_df.none)

(***************************************************************************)
(* C8                                                                      *)
(***************************************************************************)
\* the rows of the lookup table that open a key group: no earlier row has
\* the same key
GroupOpeners ==
    SelectIdx(NRows(lookup_df),
              LAMBDA i : \A h \in 1..(i - 1) :
                  lookup_df.rows[h][LookupKeyPos] # lookup_df.rows[i][LookupKeyPos])

\* the values of the field in the key group that row i opens, in row order
GroupFieldValues(i, field) ==
    SelectSeq([h \in 1..NRows(lookup_df) |->
                  IF lookup_df.rows[h][LookupKeyPos] = lookup_df.rows[i][LookupKeyPos]
                  THEN <<lookup_df.rows[h][ColPos(lookup_df, field)]>> ELSE <<>>],
              LAMBDA v : v # <<>>)

FirstNonMissing(values) ==
    IF \A h \in 1..Len(values) : values[h][1] = NA THEN NA
    ELSE values[CHOOSE h \in 1..Len(values) :
                    values[h][1] # NA /\ \A g \in 1..(h - 1) : values[g][1] = NA][1]

FirstSettings == {x \in 1..Len(temp_lookups) : field_settings[x].agg = "first"}

\* C8 as stated: with the method First the aggregated value of every key group
\* is the first non-missing value of the field in original row order, missing
\* only when every value of the group is missing.
C8_FirstNonMissingValue ==
    \A x \in FirstSettings :
        /\ NRows(temp_lookups[x]) = Len(GroupOpeners)
        /\ \A r \in 1..Len(GroupOpeners) :
              temp_lookups[x].rows[r][2] =
                  FirstNonMissing(GroupFieldValues(GroupOpeners[r], field_settings[x].field))

\* C8 amended: with the method First the aggregated value of every key group
\* is the value the field has in the group's first row in original row order,
\* missing exactly when that row's value is missing.
C8_FirstRowValue ==
    \A x \in FirstSettings :
        /\ NRows(temp_lookups[x]) = Len(GroupOpeners)
        /\ \A r \in 1..Len(GroupOpeners) :
              temp_lookups[x].rows[r][2] =
                  GroupFieldValues(GroupOpeners[r], field_settings[x].field)[1][1]

\* First was applied to a key group of two rows whose first value is missing
\* and whose second is not
C8_Witness ==
    \E x \in FirstSettings : \E r \in 1..Len(GroupOpeners) :
        LET values == GroupFieldValues(GroupOpeners[r], field_settings[x].field)
        IN  Len(values) >= 2 /\ values[1][1] = NA /\ values[2][1] # NA

(***************************************************************************)
(* C5                                                                      *)
(***************************************************************************)
\* C5: a horizontal merge (ColumnConcat) of two tables whose row counts
\* differ fails with SchemaMismatch and produces no merged table; it never
\* returns a table padded with missing values.
C5_ConcatRowCountMismatchFails ==
    (merge_method = "horizontal" /\ NRows(df1) # NRows(df2)) =>
        (merged_df.none /\ merge_error = "SchemaMismatch")

(***************************************************************************)
(* C6                                                                      *)
(***************************************************************************)
\* the columns of df2 that df1 lacks, in df2's order
RightOnlyCols == SelectSeq(df2.cols, LAMBDA name : ~HasCol(df1, name))

\* row r of merged_df carries row i of src in every column of src
CarriesRow(r, src, i) ==
    \A c \in 1..NCols(src) :
        /\ HasCol(merged_df, src.cols[c])
        /\ merged_df.rows[r][ColPos(merged_df, src.cols[c])] = src.rows[i][c]

\* C6: the vertical merge (RowAppend) has |A| + |B| rows, its columns are the
\* union of the column names, A's columns first in A's order and then the
\* B-only columns, and A's rows precede B's rows, each in their order.
C6_RowAppendShape ==
    (merge_method = "vertical" /\ ~merged_df.none) =>
        /\ NRows(merged_df) = NRows(df1) + NRows(df2)
        /\ {merged_df.cols[c] : c \in 1..NCols(merged_df)} = UnionColumns(df1, df2)
        /\ merged_df.cols = df1.cols \o RightOnlyCols
        /\ \A i \in 1..NRows(df1) : CarriesRow(i, df1, i)
        /\ \A i \in 1..NRows(df2) : CarriesRow(NRows(df1) + i, df2, i)

(***************************************************************************)
(* The page: every interaction runs the whole script, top to bottom, with  *)
(* the session state and the read cache as the only memory                 *)
(***************************************************************************)
\* what cached_read_excel parses from each file's bytes
FileTable(f) ==
    IF f = "f1"
    THEN DataFrame(<<ID, <<"a", " ", "b">> >>, <<"object", "object">>, RangeIndex(3),
                   << <<StrC(<<"1", " ">>), StrC(<<"5">>)>>,
                      <<StrC(<<"a">>), NA>>,
                      <<StrC(<<"a">>), NA>> >>)
    ELSE DataFrame(<<ID, VAL>>, <<"int64", "int64">>, RangeIndex(2),
                   << <<IntC(1), IntC(7)>>, <<IntC(2), IntC(9)>> >>)

\* no button clicked in this run: a widget changed, or st.rerun() was called
NoEvent == [kind |-> "none"]

\* an assignment into the table object cached for file f reaches every holder
\* of that object: the cache and, if saved from it, the "clean_result" entry
SetObj(s, f, table) ==
    [s EXCEPT !.cache[f] = table,
              !.pipeline["clean_result"] = IF s.alias = f THEN table ELSE @]

\* cached_read_excel: a miss parses the file and keeps the table
ReadCached(s, f) ==
    IF s.cache[f].none THEN [s EXCEPT !.cache[f] = FileTable(f)] ELSE s

\* df = convert_column_types(df) on the object the cache returned
ConvertCached(s, f) == SetObj(s, f, convert_column_types(s.cache[f]))

LoadFile(s, f) == ConvertCached(ReadCached(s, f), f)

\* df[key] = df[key].astype(str).str.strip() on the cached object of file f
NormalizeCached(s, f, j) == SetObj(s, f, NormalizeKey(s.cache[f], j))

\* the selectbox over the entries shows the first key of the dict, the entry
\* saved first, until the user selects another
FirstEntry(s, name) == IF s.selected = "" THEN name ELSE s.selected

\* a module's result: shown, copied to processed_data, saved to the pipeline
StoreResult(s, name, table) ==
    [s EXCEPT !.processed = table, !.pipeline[name] = table,
              !.selected = FirstEntry(s, name)]

StoreMerged(s, m) ==
    IF HasDuplicateColumns(m) THEN s ELSE StoreResult(s, "merge_result", FixMergedDates(m))

KeyJoinCached(s, on, how) ==
    StoreMerged(NormalizeCached(NormalizeCached(s, "f1", ColPos(s.cache["f1"], on)),
                                "f2", ColPos(s.cache["f2"], on)),
                KeyMerge(s.cache["f1"], s.cache["f2"], on, how))

\* the merge button
MergeClicked(s, ev) ==
    IF ev.kind # "merge" THEN s
    ELSE IF ev.method = "vertical"
    THEN StoreMerged(s, VerticalMerge(s.cache["f1"], s.cache["f2"], ev.all_columns))
    ELSE IF ev.method = "horizontal"
    THEN StoreMerged(s, HorizontalMerge(s.cache["f1"], s.cache["f2"]))
    ELSE IF ev.on \in CommonCols(s.cache["f1"], s.cache["f2"])
    THEN KeyJoinCached(s, ev.on, ev.how)
    ELSE s

\* the merge module's part of a run
MergeSection(s, w, ev) ==
    IF w.merge_uploaded THEN MergeClicked(LoadFile(LoadFile(s, "f1"), "f2"), ev) ELSE s

\* the type check of the match module, its box left ticked: both keys, the
\* first column of either table, are normalised in the loaded tables
AutoFix(s) ==
    IF s.cache["f1"].dtypes[1] # s.cache["f2"].dtypes[1]
    THEN NormalizeCached(NormalizeCached(s, "f1", 1), "f2", 1)
    ELSE s

MatchStored(s, done) ==
    IF done.error = "" THEN StoreResult(s, "match_result", done.result_df) ELSE s

\* the match button, one field selected: the second column of the lookup
MatchClicked(s, ev) ==
    IF ev.kind # "match" THEN s
    ELSE MatchStored(s, MatchHandler(s.cache["f1"], s.cache["f2"],
                                     s.cache["f1"].cols[1], s.cache["f2"].cols[1],
                                     <<[field |-> s.cache["f2"].cols[2], agg |-> ev.agg,
                                        new_name |-> DefaultNewName(s.cache["f2"].cols[2])]>>))

\* the match module's part of a run
MatchSection(s, w, ev) ==
    IF w.match_uploaded THEN MatchClicked(AutoFix(LoadFile(LoadFile(s, "f1"), "f2")), ev) ELSE s

HasEntries(pipeline) == \E name \in PipelineNames : ~pipeline[name].none

\* which branch of the cleaning module's loading a run takes
CleanOrigin(s, w) ==
    IF w.clean_source = "pipeline" /\ HasEntries(s.pipeline) THEN "pipeline"
    ELSE IF w.clean_source = "previous" /\ ~s.processed.none THEN "previous"
    ELSE IF w.clean_file # NoFile THEN "file"
    ELSE "none"

PrepareClean(s, w, origin) ==
    IF origin = "file" THEN LoadFile(s, w.clean_file) ELSE s

\* clean_df as loaded: a copy of an entry or of processed_data, or the very
\* object the cache holds
CleanDf(s, w, origin) ==
    IF origin = "file" THEN s.cache[w.clean_file]
    ELSE IF origin = "pipeline" THEN s.pipeline[s.selected]
    ELSE IF origin = "previous" THEN s.processed
    ELSE NoTable

Applicable(df, op) == op.col <= NCols(df)

\* a cleaning button: an assignment into clean_df changes the object loaded,
\* a rebinding of clean_df changes a local name; then st.rerun()
CleanClicked(s, w, origin, clean_df, op) ==
    [(IF origin = "file" /\ InPlace(op)
      THEN SetObj(s, w.clean_file, CleanOp(clean_df, op))
      ELSE s) EXCEPT !.rerun = TRUE]

\* the save button of the cleaning module: 'data': clean_df
CleanSaved(s, w, origin, clean_df) ==
    [s EXCEPT !.pipeline["clean_result"] = clean_df,
              !.alias = IF origin = "file" THEN w.clean_file ELSE NoFile,
              !.selected = FirstEntry(s, "clean_result"),
              !.shown = clean_df]

CleanButtons(s, w, origin, clean_df, ev) ==
    IF origin = "none" THEN [s EXCEPT !.shown = NoTable]
    ELSE IF ev.kind = "clean" /\ Applicable(clean_df, ev.op)
    THEN CleanClicked(s, w, origin, clean_df, ev.op)
    ELSE IF ev.kind = "save_clean" THEN CleanSaved(s, w, origin, clean_df)
    ELSE [s EXCEPT !.shown = clean_df]

CleanPrepared(s, w, origin, ev) == CleanButtons(s, w, origin, CleanDf(s, w, origin), ev)

\* the cleaning module's part of a run
CleanSection(s, w, ev) ==
    CleanPrepared(PrepareClean(s, w, CleanOrigin(s, w)), w, CleanOrigin(s, w), ev)

\* one run of the script
RunOnce(s, w, ev) == CleanSection(MatchSection(MergeSection(s, w, ev), w, ev), w, ev)

\* st.rerun() ends the run and starts the next one, no button clicked
Rerun(s, w) ==
    IF s.rerun THEN RunOnce([s EXCEPT !.rerun = FALSE], w, NoEvent) ELSE s

Run(s, w, ev) == Rerun(RunOnce(s, w, ev), w)

\* the memory a run starts from
Session ==
    [cache |-> cache, alias |-> clean_alias, processed |-> processed_data,
     pipeline |-> data_pipeline, selected |-> selected_clean, shown |-> clean_shown,
     rerun |-> FALSE]

Widgets ==
    [merge_uploaded |-> merge_uploaded, match_uploaded |-> match_uploaded,
     clean_source |-> clean_source, clean_file |-> clean_file]

\* the memory a run leaves
Leaves(done) ==
    /\ cache' = done.cache
    /\ clean_alias' = done.alias
    /\ processed_data' = done.processed
    /\ data_pipeline' = done.pipeline
    /\ selected_clean' = done.selected
    /\ clean_shown' = done.shown

ForgetHistory == clean_loaded' = NoTable /\ clean_history' = <<>>

MaxInteractions == 4

Interact(s, w, ev) ==
    /\ interactions < MaxInteractions
    /\ interactions' = interactions + 1
    /\ \E done \in {Run(s, w, ev)} : Leaves(done)
    /\ merge_uploaded' = w.merge_uploaded
    /\ match_uploaded' = w.match_uploaded
    /\ clean_source' = w.clean_source
    /\ clean_file' = w.clean_file
    /\ UNCHANGED <<inferVars, mergeVars, matchVars>>

Init ==
    /\ InferIdle /\ MergeIdle /\ MatchIdle
    /\ processed_data = NoTable /\ data_pipeline = EmptyPipeline
    /\ AppIdle

\* the two files put into, or taken out of, the merge module's uploaders
UploadMergeFiles ==
    /\ Interact(Session, [Widgets EXCEPT !.merge_uploaded = ~merge_uploaded], NoEvent)
    /\ ForgetHistory

UploadMatchFiles ==
    /\ Interact(Session, [Widgets EXCEPT !.match_uploaded = ~match_uploaded], NoEvent)
    /\ ForgetHistory

UploadCleanFile ==
    /\ \E f \in (Files \cup {NoFile}) \ {clean_file} :
           Interact(Session, [Widgets EXCEPT !.clean_file = f], NoEvent)
    /\ ForgetHistory

ChooseCleanSource ==
    /\ \E source \in {"pipeline", "upload", "previous"} \ {clean_source} :
           Interact(Session, [Widgets EXCEPT !.clean_source = source], NoEvent)
    /\ ForgetHistory

SelectCleanEntry ==
    /\ clean_source = "pipeline"
    /\ \E name \in PipelineNames \ {selected_clean} :
           /\ ~data_pipeline[name].none
           /\ Interact([Session EXCEPT !.selected = name], Widgets, NoEvent)
    /\ ForgetHistory

\* the tables the merge module loads in the run of a click
Loaded(f) == convert_column_types(IF cache[f].none THEN FileTable(f) ELSE cache[f])

ClickMerge ==
    /\ merge_uploaded
    /\ \/ \E all_columns \in ListsOf(UnionColumns(Loaded("f1"), Loaded("f2"))) :
              Interact(Session, Widgets,
                       [kind |-> "merge", method |-> "vertical", all_columns |-> all_columns])
       \/ Interact(Session, Widgets, [kind |-> "merge", method |-> "horizontal"])
       \/ \E on \in CommonCols(Loaded("f1"), Loaded("f2")),
             how \in {"inner", "left", "right", "outer"} :
              Interact(Session, Widgets,
                       [kind |-> "merge", method |-> "key", on |-> on, how |-> how])
    /\ ForgetHistory

ClickMatch ==
    /\ match_uploaded
    /\ \E agg \in AggOptions(Loaded("f2").dtypes[2]) :
           Interact(Session, Widgets, [kind |-> "match", agg |-> agg])
    /\ ForgetHistory

\* the buttons of the cleaning module, with what their boxes can hold
CleanOps(df) ==
    {[kind |-> k, col |-> 0, name |-> <<>>, asc |-> TRUE, to |-> ""] :
        k \in {"drop_duplicates", "dropna", "reset_index", "normalize_names"}}
    \cup {[kind |-> k, col |-> c, name |-> <<"x">>, asc |-> TRUE, to |-> ""] :
        k \in {"rename", "drop"}, c \in 1..NCols(df)}
    \cup {[kind |-> "sort", col |-> c, name |-> <<>>, asc |-> asc, to |-> ""] :
        c \in 1..NCols(df), asc \in BOOLEAN}
    \cup {[kind |-> "convert", col |-> c, name |-> <<>>, asc |-> TRUE, to |-> to] :
        c \in 1..NCols(df), to \in {"auto", "str", "num", "date"}}

MaxCleanOps == 2

ClickClean ==
    /\ ~clean_shown.none
    /\ \E op \in CleanOps(clean_shown) :
        /\ Interact(Session, Widgets, [kind |-> "clean", op |-> op])
        /\ IF clean_history = <<>> \/ Len(clean_history) >= MaxCleanOps
           THEN clean_loaded' = clean_shown /\ clean_history' = <<op>>
           ELSE clean_loaded' = clean_loaded /\ clean_history' = Append(clean_history, op)

SaveClean ==
    /\ ~clean_shown.none
    /\ Interact(Session, Widgets, [kind |-> "save_clean"])
    /\ UNCHANGED <<clean_loaded, clean_history>>

\* the sidebar: cached_read_excel.cache_clear(), then st.rerun()
ClearCache ==
    /\ Interact([Session EXCEPT !.cache = EmptyCache, !.alias = NoFile], Widgets, NoEvent)
    /\ ForgetHistory

\* the sidebar: an entry copied to processed_data, then st.rerun()
LoadEntry ==
    /\ \E name \in PipelineNames :
           /\ ~data_pipeline[name].none
           /\ Interact([Session EXCEPT !.processed = data_pipeline[name]], Widgets, NoEvent)
    /\ ForgetHistory

Next ==
    \/ UploadMergeFiles \/ UploadMatchFiles \/ UploadCleanFile
    \/ ChooseCleanSource \/ SelectCleanEntry
    \/ ClickMerge \/ ClickMatch \/ ClickClean \/ SaveClean
    \/ ClearCache \/ LoadEntry

Spec == Init /\ [][Next]_vars

(***************************************************************************)
(* C3: inputs, the cached tables among them, are not modified              *)
(***************************************************************************)
\* C3: no operation modifies a table it is given: whatever runs - type
\* inference, a key join, a match - the table object the read cache holds for
\* a file, and returns again on a later read, keeps the column names, cell
\* values and column types that were parsed from the file.
C3_CachedTablesUnchanged ==
    \A f \in Files : cache[f].none \/ cache[f] = FileTable(f)

(***************************************************************************)
(* C10: cleaning transforms compose                                        *)
(***************************************************************************)
\* the table the transforms clicked so far make of the table T
RECURSIVE Composed(_, _)
Composed(T, history) ==
    IF history = <<>> THEN T
    ELSE CleanOp(Composed(T, SubSeq(history, 1, Len(history) - 1)), history[Len(history)])

\* every transform names a column of the table it is applied to
RECURSIVE Composable(_, _)
Composable(T, history) ==
    \/ history = <<>>
    \/ /\ Composable(T, SubSeq(history, 1, Len(history) - 1))
       /\ Applicable(Composed(T, SubSeq(history, 1, Len(history) - 1)), history[Len(history)])

\* C10: after the user applies a transform f and then a transform g to the
\* loaded table T, the table previewed (and, from the same clean_df,
\* downloaded and saved) is g(f(T)): no applied transform is lost.
C10_TransformsCompose ==
    (Len(clean_history) >= 2 /\ Composable(clean_loaded, clean_history))
        => clean_shown = Composed(clean_loaded, clean_history)

(***************************************************************************)
(* C11: the columns of the match result                                    *)
(***************************************************************************)
\* the name pd.merge gives the right table's copy of a column both sides have
SuffixedLookupKey == lookup_key \o MatchSuffixes[2]

\* C11: for a match with one or more field settings with distinct new names
\* the columns of the result are exactly the main table's columns followed by
\* one column per field setting, named by its new name; when lookup_key
\* differs from main_key no column named lookup_key, or derived from it by a
\* suffix, remains.
C11_ResultColumns ==
    (MatchRan /\ match_error = "" /\ ~DuplicateNewNames) =>
        /\ result_df.cols = main_df.cols \o MatchedCols(field_settings)
        /\ lookup_key # main_key =>
              /\ ~HasCol(result_df, lookup_key)
              /\ ~HasCol(result_df, SuffixedLookupKey)

(***************************************************************************)
(* C12: the outer key join keeps every key                                 *)
(***************************************************************************)
\* the keys of a loaded table, stringified and trimmed
NormalizedKeys(df, name) ==
    {Strip(AsStr(df.rows[i][ColPos(df, name)], df.dtypes[ColPos(df, name)])) :
        i \in 1..NRows(df)}

\* the keys the result carries, as strings
MergedKeys ==
    {AsStr(merged_df.rows[i][ColPos(merged_df, merge_on)],
           merged_df.dtypes[ColPos(merged_df, merge_on)]) : i \in 1..NRows(merged_df)}

OuterJoinRan == merge_method = "key" /\ merge_how = "outer" /\ merge_error = ""

C13_InferIdempotent ==
    ~inferAgain.none => inferAgain = inferResult

\* the second application ran on a table both of whose columns the first had
\* converted
C13_Witness ==
    /\ ~inferAgain.none
    /\ NRows(inferDf) > 0
    /\ \A j \in 1..NCols(inferDf) : inferResult.dtypes[j] # inferDf.dtypes[j]

(***************************************************************************)
(* C14: the main table's columns survive the match                         *)
(***************************************************************************)
\* C14: every column the main table had before the match is in the result
\* under its original name and with its original values (the key column
\* normalized), also when a selected lookup field is named like a column of
\* the main table: the rename applies to the joined column only.
C14_MainColumnsKept ==
    (MatchRan /\ match_error = "") =>
        \A c \in 1..NCols(main_df) :
            /\ HasCol(result_df, main_df.cols[c])
            /\ NRows(result_df) = NRows(main_df) =>
                  \A i \in 1..NRows(main_df) :
                      result_df.rows[i][ColPos(result_df, main_df.cols[c])] = MainCellInResult(i, c)

(***************************************************************************)
(* C15: a pipeline entry changes only when it is saved again               *)
(***************************************************************************)
EntryChanges(name) == data_pipeline'[name] # data_pipeline[name]

\* C15: once a table is stored under a name in the pipeline its contents
\* change only in a step that saves that name again - the merge button for
\* "merge_result", the match button for "match_result", the cleaning module's
\* save button for "clean_result" - and in no other step of any module.
C15_EntriesChangeOnSave ==
    [][/\ EntryChanges("merge_result") => ClickMerge
       /\ EntryChanges("match_result") => ClickMatch
       /\ EntryChanges("clean_result") => SaveClean]_vars

====
